---- MODULE Spec2Model ----
(***************************************************************************)
(* ncaws: the navigation state machine of src/app.rs (App and its          *)
(* methods), the background fetches it spawns, the mpsc event channel and  *)
(* the tick loop of src/main.rs (run_app).                                 *)
(*                                                                         *)
(* The App struct is one record `app` with the field names of the source;  *)
(* every method of App is an operator from an App record to the App record *)
(* it leaves behind (plus what it spawned or launched).  A spawned tokio   *)
(* task is a record in `inflight`; its tx.send is an append to `channel`.  *)
(* The list operations of src/aws.rs (AwsClient) are operators from the    *)
(* responses of the SDK to the Result returned; SpecProvider applies them. *)
(***************************************************************************)
EXTENDS Integers, Sequences, FiniteSets, TLC

(***************************************************************************)
(* Bounds of the model.                                                    *)
(***************************************************************************)
\* How many times in one run a request is issued while an earlier one is
\* still outstanding (spawned and its event not yet applied).  The code sets
\* no limit; the model explores runs with at most this many overlaps, so at
\* most MaxOverlaps + 1 requests are outstanding at once.
MaxOverlaps == 1
\* The operator selects a region only in the first RegionRows rows of the
\* region list (the cursor still moves over all of it).
RegionRows == 1

(***************************************************************************)
(* Option<T>: None is the empty tuple, Some(x) the one-element tuple.      *)
(***************************************************************************)
None == <<>>
Some(x) == <<x>>
IsSome(o) == o # <<>>
Unwrap(o) == o[1]

\* Vec::get(i) with a zero-based index.
Get(v, i) == IF i < Len(v) THEN Some(v[i + 1]) ELSE None

\* Push putting the element in front.
PushFront(v, x) == <<x>> \o v

\* Vec::push on a tuple.
Push(v, x) == v \o <<x>>

\* v without its element at (one-based) position i.
RemoveAt(v, i) == [j \in 1..(Len(v) - 1) |-> IF j < i THEN v[j] ELSE v[j + 1]]

(***************************************************************************)
(* Data.                                                                   *)
(***************************************************************************)
\* App::new: the fixed region list (a Region is its name).
regions == <<"us-east-1", "us-west-2", "eu-west-1", "ap-southeast-1", "ap-northeast-1">>

\* App::new: the fixed service type list.
service_types == <<"ECS", "EC2">>

\* enum NavigationLevel.
NavigationLevel == {"Region", "ServiceType", "Cluster", "Service", "Task", "Container", "Ec2Instance"}

\* A Cluster, Service, Task, Container or Ec2Instance is modelled by a number
\* that stands for its identifying field (arn, name, task_id, instance_id).
\* The lists a provider call may return: the instance list with none or two
\* entries in either order, the ECS lists with none or one entry.
Payloads(op) ==
    IF op = "list_ec2_instances"
    THEN {<<>>, <<1, 2>>, <<2, 1>>}
    ELSE {<<>>, <<1>>}

\* A user-facing message: a format string, its string argument (a region
\* name) and its numeric argument (an entity or a count).
Msg(f, s, n) == [fmt |-> f, s |-> s, n |-> n]

\* enum AppEvent.  `items` is the Vec of a ...Loaded event, `text` the String
\* of Error, `n` the service of DeploymentTriggered.  `overtook` (an older
\* request for the same operation was still running when this one completed)
\* is a history field: no handler reads it.
Event(kind, items, text, n, overtook) ==
    [kind |-> kind, items |-> items, text |-> text, n |-> n, overtook |-> overtook]

\* A spawned task: the provider operation it awaits and the parameters its
\* closure captured (0 where the operation has no such parameter) and the
\* format of the message it sends on failure.
Fetch(op, region, cluster, arg, errfmt) ==
    [op |-> op, region |-> region, cluster |-> cluster, arg |-> arg, errfmt |-> errfmt]

(***************************************************************************)
(* The provider boundary (src/aws.rs): each list operation of AwsClient    *)
(* is an operator from what the SDK calls return to the Result the         *)
(* operation returns.  An SDK entry is a record of the accessors the       *)
(* operation reads, each an Option; the fields of an item that take a      *)
(* default when the accessor is None (cpu, memory, engine, ...) and decide *)
(* nothing are left out.                                                   *)
(***************************************************************************)
\* How many entries one SDK response holds at most.
MaxEntries == 2

\* The sequences over S of at most MaxEntries elements.
BoundedSeq(S) == UNION {[1..n -> S] : n \in 0..MaxEntries}

\* Option<T> over the values of S.
Option(S) == {None} \cup {Some(x) : x \in S}

\* Result<Vec<T>>.
Ok(items) == [ok |-> TRUE, items |-> items]
Err == [ok |-> FALSE, items |-> <<>>]

\* The elements of a sequence of sequences, in order (the nested for loops
\* over reservations and their instances).
RECURSIVE Flatten(_)
Flatten(ss) == IF ss = <<>> THEN <<>> ELSE Head(ss) \o Flatten(Tail(ss))

\* arn.split('/').last(): an ARN is the tuple of its segments between the
\* slashes (split never yields an empty iterator, so this is always Some).
split_last(arn) == Some(arn[Len(arn)])

\* The entries of an SDK response, per operation: the accessors read.
SdkEntries(op) ==
    CASE op = "list_clusters" ->
            [arn : Option({"arn1", "arn2"}), name : Option({"name"})]
      [] op = "list_services" ->
            [arn : Option({"arn1", "arn2"}), name : Option({"name"}),
             status : Option({"ACTIVE"})]
      [] op = "list_tasks" ->
            [arn : Option({<<"task", "t1">>, <<"t2">>})]
      [] op = "list_containers" ->
            [name : Option({"name1", "name2"})]
      [] op = "list_ec2_instances" ->
            [instance_id : Option({"i-1", "i-2"}), name_tag : Option({"name"})]
      [] op = "list_rds_clusters" ->
            [arn : Option({"arn1", "arn2"}), identifier : Option({"db1"})]
      [] op \in {"list_rds_instances", "list_rds_instances_for_cluster"} ->
            [arn : Option({"arn1", "arn2"}), identifier : Option({"db1"}),
             cluster_identifier : Option({"c1", "c2"})]

\* The ways a response nests its entries (reservations holding instances,
\* tasks holding containers): no group, one group, or two groups.
Grouped(entries) ==
    {<<>>, <<entries>>}
        \cup {<<SubSeq(entries, 1, k), SubSeq(entries, k + 1, Len(entries))>> :
                k \in 0..Len(entries)}

\* AwsClient::list_clusters.  `failed`: a call the operation awaits with `?`
\* returns Err; `listed`: the list call returned at least one ARN.  The
\* filter_map keeps the entries for which no `?` of its closure meets None.
list_clusters(resp) ==
    IF resp.failed THEN Err
    ELSE IF ~resp.listed THEN Ok(<<>>)
    ELSE LET kept == SelectSeq(resp.entries,
                               LAMBDA c : IsSome(c.arn) /\ IsSome(c.name))
         IN  Ok([k \in 1..Len(kept) |->
                    [arn |-> Unwrap(kept[k].arn), name |-> Unwrap(kept[k].name)]])

\* AwsClient::list_services.
list_services(resp) ==
    IF resp.failed THEN Err
    ELSE IF ~resp.listed THEN Ok(<<>>)
    ELSE LET kept == SelectSeq(resp.entries,
                               LAMBDA s : IsSome(s.arn) /\ IsSome(s.name) /\ IsSome(s.status))
         IN  Ok([k \in 1..Len(kept) |->
                    [arn |-> Unwrap(kept[k].arn), name |-> Unwrap(kept[k].name),
                     status |-> Unwrap(kept[k].status)]])

\* AwsClient::list_tasks.
list_tasks(resp) ==
    IF resp.failed THEN Err
    ELSE IF ~resp.listed THEN Ok(<<>>)
    ELSE LET kept == SelectSeq(resp.entries,
                               LAMBDA t : /\ IsSome(t.arn)
                                          /\ IsSome(split_last(Unwrap(t.arn))))
         IN  Ok([k \in 1..Len(kept) |->
                    [arn |-> Unwrap(kept[k].arn),
                     task_id |-> Unwrap(split_last(Unwrap(kept[k].arn)))]])

\* AwsClient::list_containers: the containers of the first task described,
\* none when no task is described.
list_containers(resp) ==
    IF resp.failed THEN Err
    ELSE IF resp.tasks = <<>> THEN Ok(<<>>)
    ELSE LET kept == SelectSeq(Head(resp.tasks), LAMBDA c : IsSome(c.name))
         IN  Ok([k \in 1..Len(kept) |-> [name |-> Unwrap(kept[k].name)]])

\* AwsClient::list_ec2_instances: every instance of every reservation is
\* pushed, its id "N/A" when instance_id() is None and its name the Name tag
\* or else the id; then ssm_managed is set from the SSM call when that call
\* succeeds (`ssm` is Some of the ids it reported) and is left false when
\* it fails.
list_ec2_instances(resp) ==
    IF resp.failed THEN Err
    ELSE LET all == Flatten(resp.reservations)
             instance_id(i) ==
                IF IsSome(i.instance_id) THEN Unwrap(i.instance_id) ELSE "N/A"
             instances ==
                [k \in 1..Len(all) |->
                    [instance_id |-> instance_id(all[k]),
                     name |-> IF IsSome(all[k].name_tag)
                              THEN Unwrap(all[k].name_tag) ELSE instance_id(all[k]),
                     ssm_managed |-> FALSE]]
         IN  IF instances # <<>> /\ IsSome(resp.ssm)
             THEN Ok([k \in 1..Len(instances) |->
                        [instances[k] EXCEPT
                            !.ssm_managed =
                                instances[k].instance_id \in Unwrap(resp.ssm)]])
             ELSE Ok(instances)

\* AwsClient::list_rds_clusters.
list_rds_clusters(resp) ==
    IF resp.failed THEN Err
    ELSE LET kept == SelectSeq(resp.entries,
                               LAMBDA c : IsSome(c.arn) /\ IsSome(c.identifier))
         IN  Ok([k \in 1..Len(kept) |->
                    [arn |-> Unwrap(kept[k].arn),
                     identifier |-> Unwrap(kept[k].identifier)]])

\* AwsClient::list_rds_instances.
list_rds_instances(resp) ==
    IF resp.failed THEN Err
    ELSE LET kept == SelectSeq(resp.entries,
                               LAMBDA i : IsSome(i.arn) /\ IsSome(i.identifier))
         IN  Ok([k \in 1..Len(kept) |->
                    [arn |-> Unwrap(kept[k].arn),
                     identifier |-> Unwrap(kept[k].identifier),
                     cluster_identifier |-> kept[k].cluster_identifier]])

\* AwsClient::list_rds_instances_for_cluster: the instances of the cluster
\* named by the argument.
list_rds_instances_for_cluster(resp, cluster_identifier) ==
    IF resp.failed THEN Err
    ELSE LET of_cluster ==
                SelectSeq(resp.entries,
                          LAMBDA i : /\ IsSome(i.cluster_identifier)
                                     /\ Unwrap(i.cluster_identifier) = cluster_identifier)
             kept == SelectSeq(of_cluster,
                               LAMBDA i : IsSome(i.arn) /\ IsSome(i.identifier))
         IN  Ok([k \in 1..Len(kept) |->
                    [arn |-> Unwrap(kept[k].arn),
                     identifier |-> Unwrap(kept[k].identifier),
                     cluster_identifier |-> kept[k].cluster_identifier]])

\* The list operations of AwsClient.
ListOperations ==
    {"list_clusters", "list_services", "list_tasks", "list_containers",
     "list_ec2_instances", "list_rds_clusters", "list_rds_instances",
     "list_rds_instances_for_cluster"}

\* What the SDK calls of one operation may return.
Responses(op) ==
    CASE op \in {"list_clusters", "list_services", "list_tasks"} ->
            [failed : BOOLEAN, listed : BOOLEAN, entries : BoundedSeq(SdkEntries(op))]
      [] op = "list_containers" ->
            UNION {[failed : BOOLEAN, tasks : Grouped(cs)] :
                    cs \in BoundedSeq(SdkEntries(op))}
      [] op = "list_ec2_instances" ->
            UNION {[failed : BOOLEAN, reservations : Grouped(is),
                    ssm : Option(SUBSET {"i-1", "i-2"})] :
                    is \in BoundedSeq(SdkEntries(op))}
      [] OTHER ->
            [failed : BOOLEAN, entries : BoundedSeq(SdkEntries(op))]

\* The Result of an operation on a response; `arg` is the cluster_identifier
\* of list_rds_instances_for_cluster.
Returned(op, arg, resp) ==
    CASE op = "list_clusters" -> list_clusters(resp)
      [] op = "list_services" -> list_services(resp)
      [] op = "list_tasks" -> list_tasks(resp)
      [] op = "list_containers" -> list_containers(resp)
      [] op = "list_ec2_instances" -> list_ec2_instances(resp)
      [] op = "list_rds_clusters" -> list_rds_clusters(resp)
      [] op = "list_rds_instances" -> list_rds_instances(resp)
      [] op = "list_rds_instances_for_cluster" ->
            list_rds_instances_for_cluster(resp, arg)

\* No provider call is being looked at.
ProviderIdle == [op |-> "none", arg |-> "", resp |-> <<>>, result |-> None]

VARIABLES
    app,        \* the App struct
    inflight,   \* the spawned tasks that have not completed, oldest first
    channel,    \* the mpsc channel: events sent and not yet received
    pc,         \* where run_app is: "poll", "drain", "session", "done", "panic"
    overlaps,   \* history: requests issued while another was outstanding
    hist,       \* history: what the properties about sequences of steps need
    provider    \* one call of a list operation of AwsClient: input and Result

vars == <<app, inflight, channel, pc, overlaps, hist, provider>>

\* App::new.
new ==
    [navigation |->
        [level |-> "Region",
         service_type |-> None,
         selected_region |-> None,
         selected_cluster |-> None,
         selected_service |-> None,
         selected_task |-> None,
         selected_container |-> None,
         selected_ec2_instance |-> None],
     clusters |-> <<>>,
     services |-> <<>>,
     tasks |-> <<>>,
     containers |-> <<>>,
     ec2_instances |-> <<>>,
     selected_index |-> 0,
     loading |-> FALSE,
     error_message |-> None,
     status_message |-> Msg("Select a region to begin", "", 0),
     show_info_popup |-> FALSE,
     quit |-> FALSE]

\* App::current_items_count.
current_items_count(a) ==
    CASE a.navigation.level = "Region" -> Len(regions)
      [] a.navigation.level = "ServiceType" -> Len(service_types)
      [] a.navigation.level = "Cluster" -> Len(a.clusters)
      [] a.navigation.level = "Service" -> Len(a.services)
      [] a.navigation.level = "Task" -> Len(a.tasks)
      [] a.navigation.level = "Container" -> Len(a.containers)
      [] a.navigation.level = "Ec2Instance" -> Len(a.ec2_instances)

\* next_item stopping at the last row.
next_item_stops(a) ==
    LET count == current_items_count(a) IN
    IF count > 0 /\ a.selected_index + 1 < count
    THEN [a EXCEPT !.selected_index = a.selected_index + 1]
    ELSE a

\* App::next_item.
next_item(a) ==
    LET count == current_items_count(a) IN
    IF count > 0
    THEN [a EXCEPT !.selected_index = (a.selected_index + 1) % count]
    ELSE a

\* previous_item stopping at the first row.
previous_item_stops(a) ==
    IF a.selected_index > 0
    THEN [a EXCEPT !.selected_index = a.selected_index - 1]
    ELSE a

\* App::previous_item.
previous_item(a) ==
    LET count == current_items_count(a) IN
    IF count > 0
    THEN IF a.selected_index > 0
         THEN [a EXCEPT !.selected_index = a.selected_index - 1]
         ELSE [a EXCEPT !.selected_index = count - 1]
    ELSE a

(***************************************************************************)
(* What a command handler leaves behind: the App, the tasks it spawned     *)
(* (tokio::spawn), whether it handed the terminal to an external session,  *)
(* and whether it panicked (unwrap() of None).                             *)
(***************************************************************************)
Done(a, spawn) == [app |-> a, spawn |-> spawn, launch |-> FALSE, panic |-> FALSE]
Launched(a) == [app |-> a, spawn |-> <<>>, launch |-> TRUE, panic |-> FALSE]
Panicked(a) == [app |-> a, spawn |-> <<>>, launch |-> FALSE, panic |-> TRUE]

\* select_item, NavigationLevel::Region arm.
select_region(a) ==
    LET region == Get(regions, a.selected_index) IN
    IF IsSome(region)
    THEN Done([a EXCEPT !.navigation.selected_region = region,
                        !.navigation.level = "ServiceType",
                        !.status_message = Msg("Select service type", "", 0),
                        !.selected_index = 0], <<>>)
    ELSE Done(a, <<>>)

\* select_service_type entering the level of the list before it is loaded.
select_service_type_enters_level(a) ==
    LET service_type == Get(service_types, a.selected_index) IN
    IF IsSome(service_type) /\ IsSome(a.navigation.selected_region)
    THEN LET ecs == Unwrap(service_type) = "ECS"
             region == Unwrap(a.navigation.selected_region) IN
         Done([a EXCEPT !.navigation.service_type = service_type,
                        !.navigation.level = IF ecs THEN "Cluster" ELSE "Ec2Instance",
                        !.loading = TRUE,
                        !.status_message =
                            Msg(IF ecs THEN "Loading ECS clusters in {}..."
                                       ELSE "Loading EC2 instances in {}...", region, 0)],
              <<Fetch(IF ecs THEN "list_clusters" ELSE "list_ec2_instances", region, 0, 0,
                      IF ecs THEN "Failed to load clusters: {}"
                             ELSE "Failed to load EC2 instances: {}")>>)
    ELSE Done(a, <<>>)

\* select_item, NavigationLevel::ServiceType arm.
select_service_type(a) ==
    LET service_type == Get(service_types, a.selected_index) IN
    IF IsSome(service_type)
    THEN LET b == [a EXCEPT !.navigation.service_type = service_type,
                            !.loading = TRUE] IN
         IF ~IsSome(a.navigation.selected_region)
         THEN Panicked(b)
         ELSE LET region == Unwrap(a.navigation.selected_region) IN
              IF Unwrap(service_type) = "ECS"
              THEN Done([b EXCEPT !.status_message =
                             Msg("Loading ECS clusters in {}...", region, 0)],
                        <<Fetch("list_clusters", region, 0, 0,
                                "Failed to load clusters: {}")>>)
              ELSE Done([b EXCEPT !.status_message =
                             Msg("Loading EC2 instances in {}...", region, 0)],
                        <<Fetch("list_ec2_instances", region, 0, 0,
                                "Failed to load EC2 instances: {}")>>)
    ELSE Done(a, <<>>)

\* select_item, NavigationLevel::Cluster arm.
select_cluster(a) ==
    LET cluster == Get(a.clusters, a.selected_index) IN
    IF IsSome(cluster)
    THEN LET b == [a EXCEPT !.navigation.selected_cluster = cluster,
                            !.loading = TRUE,
                            !.status_message =
                                Msg("Loading services in {}...", "", Unwrap(cluster))] IN
         IF ~IsSome(a.navigation.selected_region)
         THEN Panicked(b)
         ELSE Done(b, <<Fetch("list_services", Unwrap(a.navigation.selected_region),
                              Unwrap(cluster), 0,
                              "Failed to load services: {}")>>)
    ELSE Done(a, <<>>)

\* select_item, NavigationLevel::Service arm.
select_service(a) ==
    LET service == Get(a.services, a.selected_index) IN
    IF IsSome(service)
    THEN LET b == [a EXCEPT !.navigation.selected_service = service,
                            !.loading = TRUE,
                            !.status_message =
                                Msg("Loading tasks for {}...", "", Unwrap(service))] IN
         IF ~IsSome(a.navigation.selected_region) \/ ~IsSome(a.navigation.selected_cluster)
         THEN Panicked(b)
         ELSE Done(b, <<Fetch("list_tasks", Unwrap(a.navigation.selected_region),
                              Unwrap(a.navigation.selected_cluster), Unwrap(service),
                              "Failed to load tasks: {}")>>)
    ELSE Done(a, <<>>)

\* select_item, NavigationLevel::Task arm.
select_task(a) ==
    LET task == Get(a.tasks, a.selected_index) IN
    IF IsSome(task)
    THEN LET b == [a EXCEPT !.navigation.selected_task = task,
                            !.loading = TRUE,
                            !.status_message =
                                Msg("Loading containers for task {}...", "", Unwrap(task))] IN
         IF ~IsSome(a.navigation.selected_region) \/ ~IsSome(a.navigation.selected_cluster)
         THEN Panicked(b)
         ELSE Done(b, <<Fetch("list_containers", Unwrap(a.navigation.selected_region),
                              Unwrap(a.navigation.selected_cluster), Unwrap(task),
                              "Failed to load containers: {}")>>)
    ELSE Done(a, <<>>)

\* select_item starting the session at a leaf.
select_item_acts(a) ==
    CASE a.navigation.level = "Region" -> select_region(a)
      [] a.navigation.level = "ServiceType" -> select_service_type(a)
      [] a.navigation.level = "Cluster" -> select_cluster(a)
      [] a.navigation.level = "Service" -> select_service(a)
      [] a.navigation.level = "Task" -> select_task(a)
      [] OTHER -> Launched([a EXCEPT !.status_message = Msg("Starting session...", "", 0)])

\* select_item showing the loading state whether or not the cursor is on an
\* item.
select_item_loads_anyway(a) ==
    CASE a.navigation.level = "Region" -> select_region(a)
      [] a.navigation.level = "ServiceType" -> select_service_type(a)
      [] a.navigation.level = "Cluster" ->
            IF a.clusters = <<>> THEN Done([a EXCEPT !.loading = TRUE], <<>>)
            ELSE select_cluster(a)
      [] a.navigation.level = "Service" ->
            IF a.services = <<>> THEN Done([a EXCEPT !.loading = TRUE], <<>>)
            ELSE select_service(a)
      [] a.navigation.level = "Task" ->
            IF a.tasks = <<>> THEN Done([a EXCEPT !.loading = TRUE], <<>>)
            ELSE select_task(a)
      [] a.navigation.level = "Container" -> Done(a, <<>>)
      [] a.navigation.level = "Ec2Instance" -> Done(a, <<>>)

\* App::select_item.
select_item(a) ==
    CASE a.navigation.level = "Region" -> select_region(a)
      [] a.navigation.level = "ServiceType" -> select_service_type(a)
      [] a.navigation.level = "Cluster" -> select_cluster(a)
      [] a.navigation.level = "Service" -> select_service(a)
      [] a.navigation.level = "Task" -> select_task(a)
      [] a.navigation.level = "Container" -> Done(a, <<>>)
      [] a.navigation.level = "Ec2Instance" -> Done(a, <<>>)

\* go_back_level leaving the list of the level it leaves in place.
go_back_level_keeps_list(b) ==
    IF b.navigation.level = "Region"
    THEN b
    ELSE [b EXCEPT !.navigation.level =
                       IF @ \in {"ServiceType"} THEN "Region"
                       ELSE IF @ \in {"Cluster", "Ec2Instance"} THEN "ServiceType"
                       ELSE IF @ = "Service" THEN "Cluster"
                       ELSE IF @ = "Task" THEN "Service"
                       ELSE "Task",
                   !.navigation.service_type =
                       IF b.navigation.level = "ServiceType" THEN None ELSE @,
                   !.navigation.selected_cluster =
                       IF b.navigation.level = "Cluster" THEN None ELSE @,
                   !.navigation.selected_service =
                       IF b.navigation.level = "Service" THEN None ELSE @,
                   !.navigation.selected_task =
                       IF b.navigation.level = "Task" THEN None ELSE @,
                   !.navigation.selected_container =
                       IF b.navigation.level = "Container" THEN None ELSE @,
                   !.navigation.selected_ec2_instance =
                       IF b.navigation.level = "Ec2Instance" THEN None ELSE @,
                   !.status_message =
                       Msg(CASE b.navigation.level = "ServiceType" -> "Select a region"
                             [] b.navigation.level \in {"Cluster", "Ec2Instance"} ->
                                    "Select a service type"
                             [] b.navigation.level = "Service" -> "Select a cluster"
                             [] b.navigation.level = "Task" -> "Select a service"
                             [] b.navigation.level = "Container" -> "Select a task",
                           "", 0)]

\* go_back: the match on the level being left.
go_back_level(b) ==
    CASE b.navigation.level = "Region" -> b
      [] b.navigation.level = "ServiceType" ->
            [b EXCEPT !.navigation.level = "Region",
                      !.navigation.service_type = None,
                      !.status_message = Msg("Select a region", "", 0)]
      [] b.navigation.level = "Cluster" ->
            [b EXCEPT !.navigation.level = "ServiceType",
                      !.navigation.selected_cluster = None,
                      !.clusters = <<>>,
                      !.status_message = Msg("Select a service type", "", 0)]
      [] b.navigation.level = "Service" ->
            [b EXCEPT !.navigation.level = "Cluster",
                      !.navigation.selected_service = None,
                      !.services = <<>>,
                      !.status_message = Msg("Select a cluster", "", 0)]
      [] b.navigation.level = "Task" ->
            [b EXCEPT !.navigation.level = "Service",
                      !.navigation.selected_task = None,
                      !.tasks = <<>>,
                      !.status_message = Msg("Select a service", "", 0)]
      [] b.navigation.level = "Container" ->
            [b EXCEPT !.navigation.level = "Task",
                      !.navigation.selected_container = None,
                      !.containers = <<>>,
                      !.status_message = Msg("Select a task", "", 0)]
      [] b.navigation.level = "Ec2Instance" ->
            [b EXCEPT !.navigation.level = "ServiceType",
                      !.navigation.selected_ec2_instance = None,
                      !.ec2_instances = <<>>,
                      !.status_message = Msg("Select a service type", "", 0)]

\* go_back ending the loading display.
go_back_stops_loading(a) ==
    go_back_level([a EXCEPT !.selected_index = 0, !.error_message = None,
                            !.loading = FALSE])

\* go_back leaving the failure on display.
go_back_keeps_error(a) == go_back_level([a EXCEPT !.selected_index = 0])

\* go_back without the cursor reset.
go_back_keeps_cursor(a) == go_back_level([a EXCEPT !.error_message = None])

\* go_back returning to the top level from everywhere.
go_back_to_top(a) ==
    [go_back_level([a EXCEPT !.selected_index = 0, !.error_message = None])
        EXCEPT !.navigation.level = "Region"]

\* go_back forgetting the region when it arrives at the region list.
go_back_forgets_region(a) ==
    LET b == go_back_level([a EXCEPT !.selected_index = 0, !.error_message = None]) IN
    IF b.navigation.level = "Region"
    THEN [b EXCEPT !.navigation.selected_region = None]
    ELSE b

\* App::go_back.
go_back(a) ==
    go_back_level([a EXCEPT !.selected_index = 0, !.error_message = None])

\* App::refresh.
refresh(a) ==
    LET b == [a EXCEPT !.selected_index = 0] IN
    CASE b.navigation.level \in {"Region", "ServiceType"} -> Done(b, <<>>)
      [] b.navigation.level = "Cluster" ->
            IF IsSome(b.navigation.selected_region)
            THEN Done([b EXCEPT !.loading = TRUE],
                      <<Fetch("list_clusters", Unwrap(b.navigation.selected_region), 0, 0,
                              "Failed to refresh: {}")>>)
            ELSE Done(b, <<>>)
      [] b.navigation.level = "Service" ->
            IF IsSome(b.navigation.selected_region) /\ IsSome(b.navigation.selected_cluster)
            THEN Done([b EXCEPT !.loading = TRUE],
                      <<Fetch("list_services", Unwrap(b.navigation.selected_region),
                              Unwrap(b.navigation.selected_cluster), 0,
                              "Failed to refresh: {}")>>)
            ELSE Done(b, <<>>)
      [] b.navigation.level \in {"Task", "Container", "Ec2Instance"} -> Done(b, <<>>)

\* on_loaded without the cursor reset.
on_loaded_keeps_cursor(b, field, lvl, items, found) ==
    [b EXCEPT ![field] = items,
              !.navigation.level = lvl,
              !.status_message = Msg(found, "", Len(items))]

\* on_loaded extending the list instead of replacing it.
on_loaded_extends(b, field, lvl, items, found) ==
    [b EXCEPT ![field] = b[field] \o items,
              !.navigation.level = lvl,
              !.selected_index = 0,
              !.status_message = Msg(found, "", Len(items))]

\* on_loaded dropping a list that arrives at a level it was not requested for.
on_loaded_if_expected(b, field, lvl, items, found) ==
    IF b.navigation.level \in {lvl, "ServiceType", "Cluster", "Service", "Task"}
    THEN [b EXCEPT ![field] = items,
                   !.navigation.level = lvl,
                   !.selected_index = 0,
                   !.status_message = Msg(found, "", Len(items))]
    ELSE b

\* on_loaded keeping a list that is already there.
on_loaded_keeps_first(b, field, lvl, items, found) ==
    IF b[field] # <<>>
    THEN [b EXCEPT !.navigation.level = lvl, !.selected_index = 0]
    ELSE [b EXCEPT ![field] = items,
                   !.navigation.level = lvl,
                   !.selected_index = 0,
                   !.status_message = Msg(found, "", Len(items))]

\* on_loaded counting the list that was there before.
on_loaded_counts_old(b, field, lvl, items, found) ==
    [b EXCEPT ![field] = items,
              !.navigation.level = lvl,
              !.selected_index = 0,
              !.status_message = Msg(found, "", Len(b[field]))]

\* handle_event, the five ...Loaded arms: the list `field` is replaced, the
\* level becomes `lvl`, the cursor returns to the top and the status counts
\* the entries.
on_loaded(b, field, lvl, items, found) ==
    [b EXCEPT ![field] = items,
              !.navigation.level = lvl,
              !.selected_index = 0,
              !.status_message = Msg(found, "", Len(items))]

\* on_error also leaving the level the failed request was for.
on_error_leaves_level(b, msg) ==
    [b EXCEPT !.error_message = Some(msg),
              !.navigation.level = "Region",
              !.status_message = Msg("Error occurred", "", 0)]

\* handle_event, the Error arm.
on_error(b, msg) ==
    [b EXCEPT !.error_message = Some(msg),
              !.status_message = Msg("Error occurred", "", 0)]

\* on_deployment_triggered going to the top of the list.
on_deployment_triggered_resets(b, service_name) ==
    [b EXCEPT !.status_message = Msg("Deployment triggered for {}", "", service_name),
              !.selected_index = 0]

\* handle_event, the DeploymentTriggered arm.
on_deployment_triggered(b, service_name) ==
    [b EXCEPT !.status_message = Msg("Deployment triggered for {}", "", service_name)]

\* handle_event leaving the loading flag as it is.
handle_event_keeps_loading(a, event) ==
    CASE event.kind = "ClustersLoaded" ->
            on_loaded(a, "clusters", "Cluster", event.items, "Found {} clusters")
      [] event.kind = "ServicesLoaded" ->
            on_loaded(a, "services", "Service", event.items, "Found {} services")
      [] event.kind = "TasksLoaded" ->
            on_loaded(a, "tasks", "Task", event.items, "Found {} tasks")
      [] event.kind = "ContainersLoaded" ->
            on_loaded(a, "containers", "Container", event.items, "Found {} containers")
      [] event.kind = "Ec2InstancesLoaded" ->
            on_loaded(a, "ec2_instances", "Ec2Instance", event.items, "Found {} EC2 instances")
      [] event.kind = "DeploymentTriggered" ->
            on_deployment_triggered(a, event.n)
      [] event.kind = "Error" ->
            on_error(a, event.text)

\* App::handle_event.
handle_event(a, event) ==
    LET b == [a EXCEPT !.loading = FALSE] IN
    CASE event.kind = "ClustersLoaded" ->
            on_loaded(b, "clusters", "Cluster", event.items, "Found {} clusters")
      [] event.kind = "ServicesLoaded" ->
            on_loaded(b, "services", "Service", event.items, "Found {} services")
      [] event.kind = "TasksLoaded" ->
            on_loaded(b, "tasks", "Task", event.items, "Found {} tasks")
      [] event.kind = "ContainersLoaded" ->
            on_loaded(b, "containers", "Container", event.items, "Found {} containers")
      [] event.kind = "Ec2InstancesLoaded" ->
            on_loaded(b, "ec2_instances", "Ec2Instance", event.items, "Found {} EC2 instances")
      [] event.kind = "DeploymentTriggered" ->
            on_deployment_triggered(b, event.n)
      [] event.kind = "Error" ->
            on_error(b, event.text)

\* App::execute_command.
execute_command(a) ==
    CASE a.navigation.level = "Container" ->
            LET container == Get(a.containers, a.selected_index) IN
            IF IsSome(container)
               /\ IsSome(a.navigation.selected_region)
               /\ IsSome(a.navigation.selected_cluster)
               /\ IsSome(a.navigation.selected_task)
            THEN Launched([a EXCEPT !.status_message =
                              Msg("Starting ECS Exec session for {}...", "", Unwrap(container))])
            ELSE Done(a, <<>>)
      [] a.navigation.level = "Ec2Instance" ->
            LET instance == Get(a.ec2_instances, a.selected_index) IN
            IF IsSome(instance)
            THEN Launched([a EXCEPT !.status_message =
                              Msg("Starting SSH session to {}...", "", Unwrap(instance))])
            ELSE Done(a, <<>>)
      [] OTHER -> Done(a, <<>>)

\* force_deployment not asking for the cluster selection.
force_deployment_without_cluster(a) ==
    IF a.navigation.level # "Service"
    THEN Done(a, <<>>)
    ELSE LET service == Get(a.services, a.selected_index) IN
         IF IsSome(service) /\ IsSome(a.navigation.selected_region)
         THEN Done([a EXCEPT !.loading = TRUE,
                             !.status_message =
                                 Msg("Triggering deployment for {}...", "", Unwrap(service))],
                   <<Fetch("force_new_deployment", Unwrap(a.navigation.selected_region),
                           IF IsSome(a.navigation.selected_cluster)
                           THEN Unwrap(a.navigation.selected_cluster) ELSE 0,
                           Unwrap(service),
                           "Failed to trigger deployment: {}")>>)
         ELSE Done(a, <<>>)

\* App::force_deployment.
force_deployment(a) ==
    IF a.navigation.level # "Service"
    THEN Done(a, <<>>)
    ELSE LET service == Get(a.services, a.selected_index) IN
         IF IsSome(service)
            /\ IsSome(a.navigation.selected_region)
            /\ IsSome(a.navigation.selected_cluster)
         THEN Done([a EXCEPT !.loading = TRUE,
                             !.status_message =
                                 Msg("Triggering deployment for {}...", "", Unwrap(service))],
                   <<Fetch("force_new_deployment", Unwrap(a.navigation.selected_region),
                           Unwrap(a.navigation.selected_cluster), Unwrap(service),
                           "Failed to trigger deployment: {}")>>)
         ELSE Done(a, <<>>)

(***************************************************************************)
(* The spawned tasks and the channel.                                      *)
(***************************************************************************)
\* The AppEvent variant a spawned task sends when its provider call is Ok.
SuccessKind(op) ==
    CASE op = "list_clusters" -> "ClustersLoaded"
      [] op = "list_services" -> "ServicesLoaded"
      [] op = "list_tasks" -> "TasksLoaded"
      [] op = "list_containers" -> "ContainersLoaded"
      [] op = "list_ec2_instances" -> "Ec2InstancesLoaded"
      [] op = "force_new_deployment" -> "DeploymentTriggered"

\* History: an older task for the same operation is still running.
Overtakes(i) == \E j \in 1..(i - 1) : inflight[j].op = inflight[i].op

\* The event the task sends in its Ok arm.
ok_event(f, items, overtook) ==
    IF f.op = "force_new_deployment"
    THEN Event("DeploymentTriggered", <<>>, "", f.arg, overtook)
    ELSE Event(SuccessKind(f.op), items, "", 0, overtook)

\* The event the task sends in its Err arm.
err_event(f, overtook) == Event("Error", <<>>, f.errfmt, 0, overtook)

\* task_completes sending its event twice.
task_completes_twice(i, event) ==
    /\ channel' = Push(Push(channel, event), event)
    /\ inflight' = RemoveAt(inflight, i)

\* What a completing task does to the channel and to the set of running
\* tasks: one tx.send, and the task is over.
task_completes(i, event) ==
    /\ channel' = Push(channel, event)
    /\ inflight' = RemoveAt(inflight, i)

(***************************************************************************)
(* Vocabulary of the properties.                                           *)
(***************************************************************************)
\* The cached collections of App.
Collections == {"clusters", "services", "tasks", "containers", "ec2_instances"}

\* The events that carry a fetched list.
LoadedKinds ==
    {"ClustersLoaded", "ServicesLoaded", "TasksLoaded", "ContainersLoaded",
     "Ec2InstancesLoaded"}

\* The collection a success event is for.
CollectionOfKind(kind) ==
    CASE kind = "ClustersLoaded" -> "clusters"
      [] kind = "ServicesLoaded" -> "services"
      [] kind = "TasksLoaded" -> "tasks"
      [] kind = "ContainersLoaded" -> "containers"
      [] kind = "Ec2InstancesLoaded" -> "ec2_instances"

\* The level whose list a collection is.
LevelOfCollection(c) ==
    CASE c = "clusters" -> "Cluster"
      [] c = "services" -> "Service"
      [] c = "tasks" -> "Task"
      [] c = "containers" -> "Container"
      [] c = "ec2_instances" -> "Ec2Instance"

\* The hierarchy: the level above each level.
ParentLevel(l) ==
    CASE l = "Region" -> "Region"
      [] l = "ServiceType" -> "Region"
      [] l = "Cluster" -> "ServiceType"
      [] l = "Service" -> "Cluster"
      [] l = "Task" -> "Service"
      [] l = "Container" -> "Task"
      [] l = "Ec2Instance" -> "ServiceType"

\* l and the levels below it in its branch.
SelfAndDescendants(l) ==
    CASE l = "Region" -> NavigationLevel
      [] l = "ServiceType" -> NavigationLevel \ {"Region"}
      [] l = "Cluster" -> {"Cluster", "Service", "Task", "Container"}
      [] l = "Service" -> {"Service", "Task", "Container"}
      [] l = "Task" -> {"Task", "Container"}
      [] l = "Container" -> {"Container"}
      [] l = "Ec2Instance" -> {"Ec2Instance"}

\* This step is one turn of the drain: the event at the head of the channel
\* is received and handled.
Applies == pc = "drain" /\ channel # <<>> /\ channel' = Tail(channel)

\* This step is the handling of a key command.
Commands == pc = "poll" /\ pc' # "poll"

\* This step is the completion of a spawned task.
Completes == Len(inflight') < Len(inflight)

(***************************************************************************)
(* History.  `hist` is read by no handler.  In mode "off" it never         *)
(* changes; in mode "trip" it keeps, for each forward transition not yet   *)
(* gone back over, what the App was before it; in mode "race" it keeps the *)
(* lists delivered by requests for one collection that ran at once.        *)
(***************************************************************************)
\* The field of NavigationState that select_item assigns at level l and
\* go_back clears when it leaves l.
SelectionOf(l) ==
    CASE l = "Region" -> "selected_region"
      [] l = "ServiceType" -> "service_type"
      [] l = "Cluster" -> "selected_cluster"
      [] l = "Service" -> "selected_service"
      [] l = "Task" -> "selected_task"
      [] l = "Container" -> "selected_container"
      [] l = "Ec2Instance" -> "selected_ec2_instance"

\* l and the levels above it.
SelfAndAncestors(l) == {a \in NavigationLevel : l \in SelfAndDescendants(a)}

HistOff ==
    [mode |-> "off", stack |-> <<>>, armed |-> None, backing |-> FALSE,
     deep |-> "Region", race |-> None]

\* What the App is before a select: its navigation, its cursor, and the
\* selection the select makes at its level.
Snapshot ==
    [navigation |-> app.navigation,
     selected_index |-> app.selected_index,
     chosen |-> app'.navigation[SelectionOf(app.navigation.level)]]

\* No forward transition is remembered.
Fresh(h) == [h EXCEPT !.stack = <<>>, !.armed = None, !.backing = FALSE]

\* The forward transitions a new one is added to: none once go_back has
\* begun to undo them.
Forwards(h) == IF h.backing THEN <<>> ELSE h.stack

\* hist after a key command, mode "trip".
TripCommand(h, key) ==
    LET lvl == app.navigation.level
        lvl2 == app'.navigation.level
        spawned == Len(inflight') > Len(inflight) IN
    CASE key = "Enter" /\ lvl2 # lvl ->
            \* select_item at Region: the level changes in the handler
            [h EXCEPT !.stack = Append(Forwards(h), Snapshot), !.armed = None,
                      !.backing = FALSE, !.deep = lvl2]
      [] key = "Enter" /\ lvl2 = lvl /\ spawned ->
            \* select_item below Region: the level changes when the list
            \* arrives; only a select with nothing else pending is followed
            IF inflight = <<>> /\ channel = <<>>
            THEN [h EXCEPT !.stack = Forwards(h), !.armed = Some(Snapshot),
                           !.backing = FALSE]
            ELSE Fresh(h)
      [] key = "Back" /\ lvl2 # lvl ->
            IF h.armed = None /\ h.stack # <<>>
            THEN [h EXCEPT !.stack = SubSeq(h.stack, 1, Len(h.stack) - 1),
                           !.backing = TRUE]
            ELSE Fresh(h)
      [] key \in {"Next", "Previous"} -> h
      [] OTHER -> IF app' = app /\ ~spawned THEN h ELSE Fresh(h)

\* hist after an event is handled, mode "trip".
TripEvent(h) ==
    IF /\ IsSome(h.armed)
       /\ Head(channel).kind \in LoadedKinds
       /\ app'.navigation.level # app.navigation.level
       /\ ParentLevel(app'.navigation.level) = app.navigation.level
    THEN [h EXCEPT !.stack = Append(h.stack, Unwrap(h.armed)), !.armed = None,
                   !.deep = app'.navigation.level]
    ELSE Fresh(h)

\* hist after a task has completed, mode "race".  The event it sent is the
\* last of the channel.
RaceCompletes(h) ==
    LET e == channel'[Len(channel')]
        rivals(kind) == \E j \in 1..Len(inflight') :
                            SuccessKind(inflight'[j].op) = kind IN
    IF h.race = None
    THEN IF e.kind \in LoadedKinds /\ rivals(e.kind)
         THEN [h EXCEPT !.race = Some([kind |-> e.kind, first |-> e.items,
                                       overtook |-> e.overtook, both |-> FALSE,
                                       items |-> <<>>])]
         ELSE h
    ELSE LET r == Unwrap(h.race) IN
         IF e.kind = r.kind
         THEN [h EXCEPT !.race = Some([r EXCEPT !.both = TRUE, !.items = e.items])]
         ELSE IF ~r.both /\ ~rivals(r.kind)
         THEN [h EXCEPT !.race = None]
         ELSE h

\* hist after a key command, mode "race": a command that assigns the
\* collection ends the observation.
RaceCommand(h) ==
    IF IsSome(h.race)
    THEN LET c == CollectionOfKind(Unwrap(h.race).kind) IN
         IF app'[c] # app[c] THEN [h EXCEPT !.race = None] ELSE h
    ELSE h

\* The history after this step; `step` says which step it is.
Observe(step) ==
    hist' =
        CASE hist.mode = "trip" /\ step = "Event" -> TripEvent(hist)
          [] hist.mode = "trip" /\ step \in {"Enter", "Back", "Next", "Previous", "Key"} ->
                TripCommand(hist, step)
          [] hist.mode = "race" /\ step = "Completes" -> RaceCompletes(hist)
          [] hist.mode = "race" /\ step \in {"Enter", "Back", "Next", "Previous", "Key"} ->
                RaceCommand(hist)
          [] OTHER -> hist

\* The runtime is up: run_app has not returned and main has not panicked.
Running == pc \in {"poll", "drain", "session"}

Outstanding == Len(inflight) + Len(channel)

\* FetchOk with the task clearing the loading flag itself.
FetchOkTouchesApp(i, items) ==
    /\ Running
    /\ i \in 1..Len(inflight)
    /\ task_completes(i, ok_event(inflight[i], items, Overtakes(i)))
    /\ app' = [app EXCEPT !.loading = FALSE]
    /\ UNCHANGED <<pc, overlaps, provider>>
    /\ Observe("Completes")

\* A spawned task whose provider call returns Ok(items).
FetchOk(i, items) ==
    /\ Running
    /\ i \in 1..Len(inflight)
    /\ task_completes(i, ok_event(inflight[i], items, Overtakes(i)))
    /\ UNCHANGED <<app, pc, overlaps, provider>>
    /\ Observe("Completes")

\* A spawned task whose provider call returns Err(e).
FetchErr(i) ==
    /\ Running
    /\ i \in 1..Len(inflight)
    /\ task_completes(i, err_event(inflight[i], Overtakes(i)))
    /\ UNCHANGED <<app, pc, overlaps, provider>>
    /\ Observe("Completes")

(***************************************************************************)
(* run_app: one tick is the poll (at most one key), then the drain.        *)
(***************************************************************************)
\* after_command with the handlers awaiting the running tasks.
after_command_waits(r) ==
    /\ inflight = <<>>
    /\ app' = r.app
    /\ inflight' = inflight \o r.spawn
    /\ pc' = IF r.panic THEN "panic" ELSE IF r.launch THEN "session" ELSE "drain"
    /\ overlaps' = overlaps
    /\ UNCHANGED <<channel, provider>>

\* What run_app does with a handler's result: `?` on Err and a panic end the
\* loop, a launched session blocks it, otherwise the drain follows.
after_command(r) ==
    /\ Len(r.spawn) > 0 /\ Outstanding > 0 => overlaps < MaxOverlaps
    /\ app' = r.app
    /\ inflight' = inflight \o r.spawn
    /\ pc' = IF r.panic THEN "panic" ELSE IF r.launch THEN "session" ELSE "drain"
    /\ overlaps' = IF Len(r.spawn) > 0 /\ Outstanding > 0 THEN overlaps + 1 ELSE overlaps
    /\ UNCHANGED <<channel, provider>>

\* KeyCode::Char('q'): can_quit() is true, run_app returns.
KeyQuit ==
    /\ pc = "poll"
    /\ pc' = "done"
    /\ UNCHANGED <<app, inflight, channel, overlaps, hist, provider>>

\* KeyCode::Char('r').
KeyRefresh == pc = "poll" /\ after_command(refresh(app)) /\ Observe("Key")

\* KeyCode::Down | KeyCode::Char('j').
KeyNext ==
    pc = "poll" /\ after_command(Done(next_item(app), <<>>)) /\ Observe("Next")

\* KeyCode::Up | KeyCode::Char('k').
KeyPrevious ==
    pc = "poll" /\ after_command(Done(previous_item(app), <<>>)) /\ Observe("Previous")

\* KeyCode::Enter.
KeyEnter ==
    /\ pc = "poll"
    /\ app.navigation.level = "Region" => app.selected_index < RegionRows
    /\ after_command(select_item(app))
    /\ Observe("Enter")

\* KeyCode::Esc | KeyCode::Backspace.
KeyBack ==
    pc = "poll" /\ after_command(Done(go_back(app), <<>>)) /\ Observe("Back")

\* KeyCode::Char('e') | KeyCode::Char('s').
KeyExecute == pc = "poll" /\ after_command(execute_command(app)) /\ Observe("Key")

\* App::force_deployment, a command of App that run_app binds to no key; it
\* is taken where the other commands are.
ForceDeployment ==
    pc = "poll" /\ after_command(force_deployment(app)) /\ Observe("Key")

\* The poll waiting for a key without a timeout.
PollBlocks ==
    /\ pc = "poll"
    /\ UNCHANGED vars

\* The poll times out, or reads a key or an event the match ignores.
PollTimeout ==
    /\ pc = "poll"
    /\ pc' = "drain"
    /\ UNCHANGED <<app, inflight, channel, overlaps, hist, provider>>

\* The drain running while a session has the terminal.
DrainDuringSession ==
    /\ pc \in {"drain", "session"}
    /\ channel # <<>>
    /\ app' = handle_event(app, Head(channel))
    /\ channel' = Tail(channel)
    /\ UNCHANGED <<inflight, pc, overlaps, hist, provider>>

\* while let Ok(event) = rx.try_recv() { app.handle_event(event) }: one turn.
DrainOne ==
    /\ pc = "drain"
    /\ channel # <<>>
    /\ app' = handle_event(app, Head(channel))
    /\ channel' = Tail(channel)
    /\ UNCHANGED <<inflight, pc, overlaps, provider>>
    /\ Observe("Event")

\* The drain ending while events wait in the channel.
DrainEndsEarly ==
    /\ pc = "drain"
    /\ pc' = IF app.quit THEN "done" ELSE "poll"
    /\ UNCHANGED <<app, inflight, channel, overlaps, hist, provider>>

\* try_recv finds the channel empty; should_quit() is false (nothing sets
\* quit), so the loop goes round to the next poll.
DrainEnd ==
    /\ pc = "drain"
    /\ channel = <<>>
    /\ pc' = IF app.quit THEN "done" ELSE "poll"
    /\ UNCHANGED <<app, inflight, channel, overlaps, hist, provider>>

\* start_ecs_exec / start_ssh_session return Ok(()): the external process has
\* exited (with any status) and the operator pressed Enter.
SessionReturn ==
    /\ pc = "session"
    /\ pc' = "drain"
    /\ UNCHANGED <<app, inflight, channel, overlaps, hist, provider>>

\* start_ecs_exec / start_ssh_session return Err (the process could not be
\* started, or a terminal call failed): `?` in execute_command and in
\* run_app returns the error from run_app.
SessionError ==
    /\ pc = "session"
    /\ pc' = "done"
    /\ UNCHANGED <<app, inflight, channel, overlaps, hist, provider>>

\* The state when run_app is entered, with the history in mode `mode`.
InitIn(mode) ==
    /\ app = new
    /\ inflight = <<>>
    /\ channel = <<>>
    /\ pc = "poll"
    /\ overlaps = 0
    /\ hist = [HistOff EXCEPT !.mode = mode]
    /\ provider = ProviderIdle

Init == InitIn("off")

Next ==
    \/ KeyQuit
    \/ KeyRefresh
    \/ KeyNext
    \/ KeyPrevious
    \/ KeyEnter
    \/ KeyBack
    \/ KeyExecute
    \/ ForceDeployment
    \/ PollTimeout
    \/ DrainOne
    \/ DrainEnd
    \/ SessionReturn
    \/ SessionError
    \/ \E i \in 1..Len(inflight) : \E items \in Payloads(inflight[i].op) : FetchOk(i, items)
    \/ \E i \in 1..Len(inflight) : FetchErr(i)

Spec == Init /\ [][Next]_vars

\* The same program, with the forward and backward transitions remembered.
InitTrip == InitIn("trip")

SpecTrip == InitTrip /\ [][Next]_vars

\* The same program, with the requests that ran at once remembered.
InitRace == InitIn("race")

SpecRace == InitRace /\ [][Next]_vars

\* A list operation of AwsClient returns: its Result is computed from what
\* the SDK calls returned.
ProviderReturns ==
    /\ provider.op \in ListOperations
    /\ provider.result = None
    /\ provider' = [provider EXCEPT
                        !.result = Some(Returned(provider.op, provider.arg, provider.resp))]
    /\ UNCHANGED <<app, inflight, channel, pc, overlaps, hist>>

\* One call of one list operation, on any response of the SDK; the App is
\* not running.
InitProvider ==
    /\ app = new
    /\ inflight = <<>>
    /\ channel = <<>>
    /\ pc = "done"
    /\ overlaps = 0
    /\ hist = HistOff
    /\ \E op \in ListOperations : \E resp \in Responses(op) :
         \E arg \in IF op = "list_rds_instances_for_cluster" THEN {"c1"} ELSE {""} :
            provider = [op |-> op, arg |-> arg, resp |-> resp, result |-> None]

NextProvider == ProviderReturns

SpecProvider == InitProvider /\ [][NextProvider]_vars

\* C1: in every reachable state the cursor is an index into the collection of
\* the current level, 0 <= selected_index < count, or 0 when that is empty.
C1_CursorInRange ==
    LET count == current_items_count(app) IN
    IF count = 0
    THEN app.selected_index = 0
    ELSE app.selected_index >= 0 /\ app.selected_index < count

\* The cursor is below the top of a fetched list.
C1_Witness ==
    /\ app.navigation.level = "Ec2Instance"
    /\ app.selected_index = 1

\* C2: handling a failure event never changes the level or any cached
\* collection, leaves loading false, sets error_message to the failure text
\* and status_message to "Error occurred".
C2_FailureOutcome ==
    [][Applies /\ Head(channel).kind = "Error" =>
        /\ app'.navigation.level = app.navigation.level
        /\ \A c \in Collections : app'[c] = app[c]
        /\ app'.loading = FALSE
        /\ app'.error_message = Some(Head(channel).text)
        /\ app'.status_message = Msg("Error occurred", "", 0)]_vars

\* A failure has been handled below the fixed levels, with a list on display.
C2_Witness ==
    /\ app.error_message = Some("Failed to load services: {}")
    /\ app.status_message = Msg("Error occurred", "", 0)
    /\ app.navigation.level = "Cluster"
    /\ app.clusters # <<>>
    /\ ~app.loading

\* C3: handling a success event for a level sets the cursor to 0 and makes
\* that level's collection the delivered list, entry for entry, and changes
\* no other collection.
C3_SuccessOutcome ==
    [][Applies /\ Head(channel).kind \in LoadedKinds =>
        LET c == CollectionOfKind(Head(channel).kind) IN
        /\ app'.selected_index = 0
        /\ app'[c] = Head(channel).items
        /\ \A d \in Collections \ {c} : app'[d] = app[d]]_vars

\* A two-entry list has been delivered, in the order the provider gave it,
\* while a list of the other branch is cached.
C3_Witness ==
    /\ app.ec2_instances = <<2, 1>>
    /\ app.status_message = Msg("Found {} EC2 instances", "", 2)
    /\ app.selected_index = 0
    /\ app.clusters # <<>>

\* This step is a go_back that undoes the latest remembered forward
\* transition.
Pops ==
    /\ hist.mode = "trip"
    /\ pc = "poll"
    /\ hist.stack # <<>>
    /\ hist'.backing
    /\ hist'.stack = SubSeq(hist.stack, 1, Len(hist.stack) - 1)
    /\ app'.navigation.level # app.navigation.level

\* The App before the forward transition that this go_back undoes.
Before == hist.stack[Len(hist.stack)]

\* The levels entered since then.
Entered == SelfAndAncestors(hist.deep) \ SelfAndAncestors(Before.navigation.level)

\* C4 as stated: after n forward transitions and n go_backs, the level, the
\* selections and the cursor are what they were before the first of them,
\* and the collections of the levels entered are empty.
C4_RoundTripRestores ==
    [][Pops =>
        /\ app'.navigation = Before.navigation
        /\ app'.selected_index = Before.selected_index
        /\ \A c \in Collections :
               LevelOfCollection(c) \in Entered => app'[c] = <<>>]_vars

\* C4 as amended: after n forward transitions and n go_backs, with no other
\* command and no other event between them, the level is what it was before
\* the first of them, the cursor is 0, the collections of the levels entered
\* are empty, the selections made at the levels entered are absent, the
\* selection made at the starting level by the first forward transition is
\* still there, and every other selection is what it was.
C4_RoundTripUnwinds ==
    [][Pops =>
        /\ app'.navigation.level = Before.navigation.level
        /\ app'.selected_index = 0
        /\ \A c \in Collections :
               LevelOfCollection(c) \in Entered => app'[c] = <<>>
        /\ \A l \in NavigationLevel :
               app'.navigation[SelectionOf(l)] =
                   IF l \in Entered THEN None
                   ELSE IF l = Before.navigation.level THEN Before.chosen
                   ELSE Before.navigation[SelectionOf(l)]]_vars

\* Three forward transitions from Region, down to Service, have been undone
\* by three go_backs.
C4_Witness ==
    /\ hist.mode = "trip"
    /\ hist.backing
    /\ hist.stack = <<>>
    /\ hist.deep = "Service"
    /\ app.navigation.level = "Region"
    /\ app.navigation.selected_region = Some("us-east-1")

\* C5: in every reachable state the selection chain is well formed: a
\* selection is present only if its ancestors are and are of its branch,
\* every selection needed to reach the current level is present, and no
\* selection of the branch that is not active is present.
C5_ChainWellFormed ==
    LET n == app.navigation
        ecs == n.service_type = Some("ECS")
        ec2 == n.service_type = Some("EC2") IN
    /\ IsSome(n.service_type) => IsSome(n.selected_region)
    /\ IsSome(n.selected_cluster) => ecs
    /\ IsSome(n.selected_service) => IsSome(n.selected_cluster)
    /\ IsSome(n.selected_task) => IsSome(n.selected_service)
    /\ IsSome(n.selected_container) => IsSome(n.selected_task)
    /\ IsSome(n.selected_ec2_instance) => ec2
    /\ n.level # "Region" => IsSome(n.selected_region)
    /\ n.level \in {"Cluster", "Service", "Task", "Container"} => ecs
    /\ n.level \in {"Service", "Task", "Container"} => IsSome(n.selected_cluster)
    /\ n.level \in {"Task", "Container"} => IsSome(n.selected_service)
    /\ n.level = "Container" => IsSome(n.selected_task)
    /\ n.level = "Ec2Instance" => ec2

\* C6: in every reachable state a cached collection is non-empty only if the
\* current level is its level or a descendant of it in the same branch.
C6_CollectionsFollowLevel ==
    \A c \in Collections :
        app[c] # <<>> =>
            app.navigation.level \in SelfAndDescendants(LevelOfCollection(c))

\* C7: a spawned task that ends has sent exactly one event, the success
\* event of its operation or an Error, at the tail of the channel; and
\* nothing but a task that ends puts an event into the channel.
C7_OneEventPerFetch ==
    [][/\ Completes =>
            \E i \in 1..Len(inflight) :
                /\ inflight' = RemoveAt(inflight, i)
                /\ Len(channel') = Len(channel) + 1
                /\ SubSeq(channel', 1, Len(channel)) = channel
                /\ channel'[Len(channel')].kind \in
                       {SuccessKind(inflight[i].op), "Error"}
       /\ Len(channel') > Len(channel) =>
            Completes /\ Len(channel') = Len(channel) + 1]_vars

\* Two tasks have ended, one in failure and then one in success, and each
\* has left one event.
C7_Witness ==
    /\ inflight = <<>>
    /\ Len(channel) = 2
    /\ channel[1].kind = "Error"
    /\ channel[2].kind \in LoadedKinds

\* C8: no key command removes a running task or an event from the channel,
\* and a success event is handled whatever the level is by then: the level
\* becomes the event's level and that level's collection the delivered list.
C8_NoCancellation ==
    [][/\ Commands =>
            /\ Len(inflight') >= Len(inflight)
            /\ SubSeq(inflight', 1, Len(inflight)) = inflight
            /\ channel' = channel
       /\ Applies /\ Head(channel).kind \in LoadedKinds =>
            LET c == CollectionOfKind(Head(channel).kind) IN
            /\ app'.navigation.level = LevelOfCollection(c)
            /\ app'[c] = Head(channel).items]_vars

\* The cluster list arrived after the operator had gone back to Region: the
\* level is Cluster although the service type choice has been cleared.
C8_Witness ==
    /\ app.navigation.level = "Cluster"
    /\ app.navigation.service_type = None
    /\ app.clusters # <<>>

\* C9: when requests for one collection were running at once and have
\* completed, and every event for that collection has been handled, the
\* collection is the list of the one that completed last, whichever was
\* issued first (unless a key command has assigned the collection since).
C9_LaterCompletionWins ==
    (IsSome(hist.race) /\ Unwrap(hist.race).both) =>
        LET r == Unwrap(hist.race) IN
        (\A k \in 1..Len(channel) : channel[k].kind # r.kind) =>
            app[CollectionOfKind(r.kind)] = r.items

\* The request issued second completed first with one list, the request
\* issued first completed after it with another; both have been handled
\* and the collection is the second list.
C9_Witness ==
    /\ IsSome(hist.race)
    /\ Unwrap(hist.race).both
    /\ Unwrap(hist.race).overtook
    /\ Unwrap(hist.race).first # Unwrap(hist.race).items
    /\ channel = <<>>
    /\ inflight = <<>>
    /\ app[CollectionOfKind(Unwrap(hist.race).kind)] = Unwrap(hist.race).items

\* This step is Enter at ServiceType on ECS: it spawns the cluster load.
IssuesClusterLoad ==
    /\ pc = "poll"
    /\ app.navigation.level = "ServiceType"
    /\ Len(inflight') = Len(inflight) + 1
    /\ inflight'[Len(inflight')].op = "list_clusters"

\* C10 as stated: selecting ECS at ServiceType puts the level at Cluster at
\* once, with loading set and the status "Loading ECS clusters in <region>...",
\* and the success event leaves the level at Cluster.
C10_LevelAtIssue ==
    [][/\ IssuesClusterLoad =>
            /\ app'.navigation.level = "Cluster"
            /\ app'.loading
            /\ app'.status_message =
                   Msg("Loading ECS clusters in {}...",
                       Unwrap(app.navigation.selected_region), 0)
       /\ Applies /\ Head(channel).kind = "ClustersLoaded" =>
            app'.navigation.level = "Cluster"]_vars

\* C10 as amended: selecting ECS at ServiceType sets loading and the status
\* "Loading ECS clusters in <region>..." and leaves the level at ServiceType;
\* no step other than a key command or a handled event changes the App; the
\* level becomes Cluster when the ClustersLoaded event is handled.
C10_LevelAtOutcome ==
    [][/\ IssuesClusterLoad =>
            /\ app'.navigation.level = "ServiceType"
            /\ app'.loading
            /\ app'.status_message =
                   Msg("Loading ECS clusters in {}...",
                       Unwrap(app.navigation.selected_region), 0)
       /\ ~Commands /\ ~Applies => app' = app
       /\ Applies /\ Head(channel).kind = "ClustersLoaded" =>
            app'.navigation.level = "Cluster"]_vars

\* The cluster load is running and no event has been handled yet.
C10_Witness ==
    /\ app.navigation.level = "ServiceType"
    /\ app.loading
    /\ app.status_message = Msg("Loading ECS clusters in {}...", "us-east-1", 0)
    /\ Len(inflight) = 1
    /\ inflight[1].op = "list_clusters"
    /\ channel = <<>>
    /\ app.error_message = None

\* C11: go_back handled at level Service leaves the level at Cluster, the
\* cursor at 0, no service and no task selected, and the tasks and containers
\* collections empty.
C11_BackFromService ==
    app.navigation.level = "Service" =>
        LET b == go_back(app) IN
        /\ b.navigation.level = "Cluster"
        /\ b.selected_index = 0
        /\ b.navigation.selected_service = None
        /\ b.navigation.selected_task = None
        /\ b.tasks = <<>>
        /\ b.containers = <<>>

\* next_item applied n times.
RECURSIVE advance_times(_, _)
advance_times(a, n) == IF n = 0 THEN a ELSE advance_times(next_item(a), n - 1)

\* The largest number of advances tried on an empty list.
MaxAdvances == 3

\* C12: with the level and its list unchanged, count advances bring the
\* cursor back to where it was when count > 0, and any number of advances
\* leave it at 0 when count = 0.
C12_AdvanceCycles ==
    LET count == current_items_count(app) IN
    IF count > 0
    THEN advance_times(app, count).selected_index = app.selected_index
    ELSE /\ app.selected_index = 0
         /\ \A n \in 0..MaxAdvances : advance_times(app, n).selected_index = 0

\* The cursor is on the last of the five regions: one more advance wraps.
C12_Witness ==
    /\ app.navigation.level = "Region"
    /\ app.selected_index = 4

\* C13: next_item sets the cursor to (cursor + 1) mod count, previous_item
\* to count - 1 from 0 and to cursor - 1 otherwise; both leave the App as it
\* is when count = 0; neither changes anything but the cursor; previous_item
\* undoes next_item.
C13_AdvanceRetreat ==
    LET count == current_items_count(app)
        i == app.selected_index IN
    /\ next_item(app) =
           IF count = 0 THEN app
           ELSE [app EXCEPT !.selected_index = (i + 1) % count]
    /\ previous_item(app) =
           IF count = 0 THEN app
           ELSE [app EXCEPT !.selected_index = IF i = 0 THEN count - 1 ELSE i - 1]
    /\ previous_item(next_item(app)) = app

\* The cursor is on the second of the two service types.
C13_Witness ==
    /\ app.navigation.level = "ServiceType"
    /\ app.selected_index = 1
    /\ app.navigation.service_type = None

\* C14: every step that changes the level, by a key command or by a handled
\* event, forward or backward, ends with the cursor at 0.
C14_LevelChangeResetsCursor ==
    [][app'.navigation.level # app.navigation.level => app'.selected_index = 0]_vars

\* go_back from Ec2Instance has brought the level to ServiceType, where the
\* EC2 choice is still recorded, with the cursor at 0.
C14_Witness ==
    /\ app.navigation.level = "ServiceType"
    /\ app.navigation.service_type = Some("EC2")
    /\ app.status_message = Msg("Select a service type", "", 0)
    /\ app.selected_index = 0
    /\ ~app.loading

\* C15: no error_message is present after a navigation command is handled:
\* after select_item, go_back, next_item, previous_item or refresh.
C15_CommandsClearError ==
    /\ select_item(app).app.error_message = None
    /\ go_back(app).error_message = None
    /\ next_item(app).error_message = None
    /\ previous_item(app).error_message = None
    /\ refresh(app).app.error_message = None

\* C16: loading is true in every state in which a fetch has been issued and
\* its event has not been handled yet.
C16_LoadingWhileOutstanding == Outstanding > 0 => app.loading

\* C17: select_item and refresh handled while loading is true spawn no
\* fetch.
C17_LoadingGatesFetch ==
    app.loading =>
        /\ select_item(app).spawn = <<>>
        /\ refresh(app).spawn = <<>>

\* C18: the channel is first in, first out: a step leaves it as it is, or a
\* completing task appends its event at the tail, or the drain takes the
\* event at the head and handles that event; so events are handled in the
\* order the tasks completed, none twice and none lost.
C18_CompletionOrder ==
    [][\/ channel' = channel
       \/ /\ Completes
          /\ Len(channel') = Len(channel) + 1
          /\ SubSeq(channel', 1, Len(channel)) = channel
       \/ /\ channel # <<>>
          /\ channel' = Tail(channel)
          /\ app' = handle_event(app, Head(channel))]_vars

\* The cluster refresh, issued after the service load, has completed and
\* been handled while the service load is still running.
C18_Witness ==
    /\ Len(inflight) = 1
    /\ inflight[1].op = "list_services"
    /\ channel = <<>>
    /\ app.status_message.fmt = "Found {} clusters"
    /\ overlaps = 1

\* The tick loop keeps running: the poll times out, the drain receives what
\* is in the channel, and a session that was launched returns.
Fairness ==
    /\ WF_vars(PollTimeout)
    /\ WF_vars(DrainOne)
    /\ WF_vars(DrainEnd)
    /\ WF_vars(SessionReturn)

SpecLive == Init /\ [][Next]_vars /\ Fairness

\* C19: while the tick loop keeps running, every event sent is handled in
\* the end with no further key: a channel that holds events is emptied by
\* the drain, unless run_app has returned or panicked.
C19_EventsAreHandled ==
    (channel # <<>>) ~> (channel = <<>> \/ pc \in {"done", "panic"})

\* A list has been delivered and handled, and nothing is pending.
C19_Witness ==
    /\ channel = <<>>
    /\ inflight = <<>>
    /\ pc = "poll"
    /\ app.navigation.level = "Service"
    /\ app.services # <<>>
    /\ ~app.loading

\* C20: nothing but the handling of an event sets loading to false: no key
\* command does, and no time passing does.
C20_OnlyEventsEndLoading ==
    [][app.loading /\ ~app'.loading => Applies]_vars

\* The operator has gone back to Region while the cluster list is still
\* being fetched: loading is still true.
C20_Witness ==
    /\ app.loading
    /\ app.navigation.level = "Region"
    /\ Len(inflight) = 1
    /\ channel = <<>>

\* C21: a running fetch never holds up the loop or the keys.  Wherever
\* loading is true and the loop is at the poll, go_back, the cursor keys and
\* quit can be handled, and go_back and the cursor keys do what they do when
\* loading is false; and with tasks still running, the poll can time out and
\* the drain can end.
C21_InputNotBlocked ==
    LET idle == [app EXCEPT !.loading = FALSE] IN
    /\ app.loading /\ pc = "poll" =>
        /\ ENABLED KeyBack
        /\ ENABLED KeyNext
        /\ ENABLED KeyPrevious
        /\ ENABLED KeyQuit
        /\ go_back(app) = [go_back(idle) EXCEPT !.loading = TRUE]
        /\ next_item(app) = [next_item(idle) EXCEPT !.loading = TRUE]
        /\ previous_item(app) = [previous_item(idle) EXCEPT !.loading = TRUE]
    /\ inflight # <<>> /\ pc = "poll" => ENABLED PollTimeout
    /\ inflight # <<>> /\ pc = "drain" /\ channel = <<>> => ENABLED DrainEnd

\* The cursor has been moved to the second service type while the cluster
\* list, asked for on the first, is still being fetched.
C21_Witness ==
    /\ app.loading
    /\ Len(inflight) = 1
    /\ app.navigation.level = "ServiceType"
    /\ app.navigation.service_type = Some("ECS")
    /\ app.selected_index = 1

\* C22: handling a DeploymentTriggered event sets status_message and leaves
\* the level, the selections, every collection, the cursor and
\* error_message as they are (loading is set to false, as by every event).
C22_DeploymentConfirmation ==
    [][Applies /\ Head(channel).kind = "DeploymentTriggered" =>
        /\ app'.navigation = app.navigation
        /\ \A c \in Collections : app'[c] = app[c]
        /\ app'.selected_index = app.selected_index
        /\ app'.error_message = app.error_message
        /\ app'.status_message = Msg("Deployment triggered for {}", "", Head(channel).n)
        /\ app'.loading = FALSE]_vars

\* A deployment has been confirmed at level Service with the cursor on the
\* service.
C22_Witness ==
    /\ app.status_message.fmt = "Deployment triggered for {}"
    /\ app.navigation.level = "Service"
    /\ app.services # <<>>
    /\ ~app.loading

\* C23 as stated: go_back at level Region changes nothing of the App.
C23_BackAtRegionIsNoOp ==
    app.navigation.level = "Region" => go_back(app) = app

\* C23 as amended: go_back at level Region leaves the level, the selections,
\* the collections, status_message and loading as they are, sets the cursor
\* to 0 and clears error_message.
C23_BackAtRegionResets ==
    app.navigation.level = "Region" =>
        go_back(app) = [app EXCEPT !.selected_index = 0, !.error_message = None]

\* The App is at Region with the cursor off the first row and a failure on
\* display: go_back changes both.
C23_Witness ==
    /\ app.navigation.level = "Region"
    /\ app.selected_index = 1
    /\ IsSome(app.error_message)

\* C24: go_back handled at level ServiceType leaves the level at Region, no
\* service type chosen and every fetched collection empty.
C24_BackFromServiceType ==
    app.navigation.level = "ServiceType" =>
        LET b == go_back(app) IN
        /\ b.navigation.level = "Region"
        /\ b.navigation.service_type = None
        /\ \A c \in Collections : b[c] = <<>>

\* The provider operation that lists the collection of a level.
OpOfLevel(l) ==
    CASE l = "Cluster" -> "list_clusters"
      [] l = "Service" -> "list_services"
      [] l = "Task" -> "list_tasks"
      [] l = "Container" -> "list_containers"
      [] l = "Ec2Instance" -> "list_ec2_instances"

\* C25: at every level whose collection is fetched, refresh spawns one task,
\* for the operation that lists that level's collection, and leaves the
\* level as it is.
C25_RefreshRefetches ==
    app.navigation.level \in {LevelOfCollection(c) : c \in Collections} =>
        LET r == refresh(app) IN
        /\ Len(r.spawn) = 1
        /\ r.spawn[1].op = OpOfLevel(app.navigation.level)
        /\ r.app.navigation.level = app.navigation.level

\* C26: select_item at Container or Ec2Instance changes nothing of the App
\* and spawns no task.
C26_SelectAtLeaf ==
    app.navigation.level \in {"Container", "Ec2Instance"} =>
        select_item(app) = Done(app, <<>>)

\* The App is at Container with a container at the cursor.
C26_Witness ==
    /\ app.navigation.level = "Container"
    /\ app.containers # <<>>
    /\ pc = "drain"
    /\ app.status_message.fmt = "Found {} containers"

\* C27: run_app ends on quit only: a step after which the loop no longer
\* runs is the q key, taken at the poll, and it leaves the App as it is.
C27_LoopEndsOnQuitOnly ==
    [][Running /\ pc' \in {"done", "panic"} =>
        pc = "poll" /\ pc' = "done" /\ app' = app]_vars

\* C28: while a session runs no key is handled and no event is handled: the
\* App does not change, the channel only receives what completing tasks
\* send, and when the session returns the drain comes before the next poll.
C28_SessionIsExclusive ==
    [][pc = "session" =>
        /\ app' = app
        /\ \/ channel' = channel
           \/ /\ Completes
              /\ Len(channel') = Len(channel) + 1
              /\ SubSeq(channel', 1, Len(channel)) = channel
        /\ inflight' # inflight => Completes
        /\ pc' \in {"session", "drain", "done"}]_vars

\* A task has completed while the session runs: its event waits in the
\* channel.
C28_Witness ==
    /\ pc = "session"
    /\ channel # <<>>
    /\ app.navigation.level = "Ec2Instance"

\* The entries the SDK returned to a list operation, in the order returned.
ReturnedBySdk(op, resp) ==
    CASE op = "list_containers" -> Flatten(resp.tasks)
      [] op = "list_ec2_instances" -> Flatten(resp.reservations)
      [] OTHER -> resp.entries

\* The identifying field of an SDK entry, an Option: the ARN, the instance
\* id, or the name of a container (which has no ARN).
IdentifyingField(op, entry) ==
    CASE op = "list_containers" -> entry.name
      [] op = "list_ec2_instances" -> entry.instance_id
      [] OTHER -> entry.arn

\* The same field of an item of the returned Vec.
IdentifierOf(op, item) ==
    CASE op = "list_containers" -> item.name
      [] op = "list_ec2_instances" -> item.instance_id
      [] OTHER -> item.arn

\* s is t with some elements left out, the rest in the order of t.
RECURSIVE IsSubsequence(_, _)
IsSubsequence(s, t) ==
    IF s = <<>> THEN TRUE
    ELSE IF t = <<>> THEN FALSE
    ELSE IF Head(s) = Head(t) THEN IsSubsequence(Tail(s), Tail(t))
    ELSE IsSubsequence(s, Tail(t))

\* C29: a list operation whose SDK calls succeed returns Ok, and what it
\* returns are entries that have their identifying field, in the order the
\* SDK gave them: an entry without the field is not among them.
C29_EntriesWithoutIdDropped ==
    (provider.op \in ListOperations /\ IsSome(provider.result) /\ ~provider.resp.failed) =>
        LET op == provider.op
            result == Unwrap(provider.result)
            raw == ReturnedBySdk(op, provider.resp)
            identified == SelectSeq(raw, LAMBDA e : IsSome(IdentifyingField(op, e)))
        IN  /\ result.ok
            /\ IsSubsequence(
                    [k \in 1..Len(result.items) |-> IdentifierOf(op, result.items[k])],
                    [k \in 1..Len(identified) |->
                        Unwrap(IdentifyingField(op, identified[k]))])

\* C30: the managed-database branch is navigable: at ServiceType some row of
\* the list is the database choice, and Enter on it starts the fetch of the
\* database clusters.
C30_DatabaseBranchNavigable ==
    app.navigation.level = "ServiceType" =>
        \E i \in 0..(Len(service_types) - 1) :
            LET r == select_item([app EXCEPT !.selected_index = i]) IN
            \E k \in 1..Len(r.spawn) : r.spawn[k].op = "list_rds_clusters"

\* C31: one tick is the key, then the drain.  A command is handled at the
\* poll only and the loop then leaves the poll without touching the channel;
\* the poll is next reached from the drain; each turn of the drain handles
\* the event at the head of the channel; the drain ends only on an empty
\* channel, and on an empty channel it can end whatever tasks still run.
C31_TickOrder ==
    [][/\ (app' # app \/ Len(inflight') > Len(inflight)) =>
            \/ pc = "poll" /\ pc' # "poll" /\ channel' = channel
            \/ Applies /\ Len(inflight') = Len(inflight)
       /\ Applies => app' = handle_event(app, Head(channel)) /\ pc' = "drain"
       /\ (pc = "poll" /\ ~Completes) => pc' # "poll"
       /\ (pc # "poll" /\ pc' = "poll") => pc = "drain"
       /\ (pc = "drain" /\ pc' # "drain") =>
            channel = <<>> /\ app' = app /\ pc' \in {"poll", "done"}
       /\ (pc = "drain" /\ channel = <<>>) => ENABLED DrainEnd]_vars

\* A drain has handled an event and ended, and the loop is at the poll
\* again, while a task still runs.
C31_Witness ==
    /\ pc = "poll"
    /\ inflight # <<>>
    /\ channel = <<>>
    /\ app.navigation.level = "Cluster"
    /\ app.clusters # <<>>

\* C32: a spawned task is isolated from the App.  A step that is not a
\* completion leaves the running tasks and their captured parameters as they
\* are and only adds tasks, whose region and cluster are the selections of
\* the App when they are spawned; a completion leaves the App and the loop
\* where they are, ends that one task and adds one event to the channel,
\* made from the task's own parameters and the provider's answer.
C32_FetchIsolated ==
    [][/\ ~Completes =>
            /\ Len(inflight') >= Len(inflight)
            /\ SubSeq(inflight', 1, Len(inflight)) = inflight
            /\ \A k \in (Len(inflight) + 1)..Len(inflight') :
                    /\ IsSome(app.navigation.selected_region)
                    /\ inflight'[k].region = Unwrap(app.navigation.selected_region)
                    /\ inflight'[k].cluster # 0 =>
                            /\ IsSome(app'.navigation.selected_cluster)
                            /\ inflight'[k].cluster = Unwrap(app'.navigation.selected_cluster)
       /\ Completes =>
            /\ app' = app
            /\ pc' = pc
            /\ \E i \in 1..Len(inflight) :
                    /\ inflight' = RemoveAt(inflight, i)
                    /\ \/ channel' = Push(channel, err_event(inflight[i], Overtakes(i)))
                       \/ \E items \in Payloads(inflight[i].op) :
                            channel' = Push(channel,
                                            ok_event(inflight[i], items, Overtakes(i)))]_vars

\* The task spawned at Cluster has completed after two keys went back to
\* ServiceType, where no cluster is selected any more.
C32_Witness ==
    /\ channel # <<>>
    /\ channel[Len(channel)].kind = "ServicesLoaded"
    /\ app.navigation.level = "ServiceType"
    /\ app.navigation.selected_cluster = None

\* The status message go_back leaves when it arrives at level l.
PromptOf(l) ==
    CASE l = "Region" -> Msg("Select a region", "", 0)
      [] l = "ServiceType" -> Msg("Select a service type", "", 0)
      [] l = "Cluster" -> Msg("Select a cluster", "", 0)
      [] l = "Service" -> Msg("Select a service", "", 0)
      [] l = "Task" -> Msg("Select a task", "", 0)

\* C33: from every reachable state below Region, go_back moves to the parent
\* of the level, clears the selection made at the level it leaves and the
\* list of that level, puts the cursor at 0, clears the error message and
\* sets the status message to the prompt of the parent; the other selections
\* and lists stay.
C33_BackGoesToParent ==
    app.navigation.level # "Region" =>
        LET l == app.navigation.level
            b == go_back(app)
        IN  /\ b.navigation.level = ParentLevel(l)
            /\ b.navigation[SelectionOf(l)] = None
            /\ \A c \in Collections : LevelOfCollection(c) = l => b[c] = <<>>
            /\ b.selected_index = 0
            /\ b.error_message = None
            /\ b.status_message = PromptOf(ParentLevel(l))
            /\ \A m \in NavigationLevel \ {l} :
                    b.navigation[SelectionOf(m)] = app.navigation[SelectionOf(m)]
            /\ \A c \in Collections : LevelOfCollection(c) # l => b[c] = app[c]

\* go_back has left Container: the level is Task, with the task list kept
\* and the container selection and list cleared.
C33_Witness ==
    /\ app.navigation.level = "Task"
    /\ app.status_message = PromptOf("Task")
    /\ app.tasks # <<>>
    /\ app.containers = <<>>
    /\ IsSome(app.navigation.selected_task)

\* The count summary of a success event: "Found {} " and the plural of what
\* was listed.
FoundSummary(kind) ==
    CASE kind = "ClustersLoaded" -> "Found {} clusters"
      [] kind = "ServicesLoaded" -> "Found {} services"
      [] kind = "TasksLoaded" -> "Found {} tasks"
      [] kind = "ContainersLoaded" -> "Found {} containers"
      [] kind = "Ec2InstancesLoaded" -> "Found {} EC2 instances"

\* C34: in every reachable state, whatever its level, handle_event applied
\* to a success event of any kind with any list sets the level to the level
\* of that kind, sets loading to false and sets the status message to the
\* count summary of that kind with the length of the list.
C34_SuccessSetsLevel ==
    \A kind \in LoadedKinds :
        LET lvl == LevelOfCollection(CollectionOfKind(kind)) IN
        \A items \in Payloads(OpOfLevel(lvl)) :
            LET b == handle_event(app, Event(kind, items, "", 0, FALSE)) IN
            /\ b.navigation.level = lvl
            /\ b.loading = FALSE
            /\ b.status_message = Msg(FoundSummary(kind), "", Len(items))

\* ServicesLoaded has been handled after go_back left Cluster: the level is
\* Service although no cluster is selected.
C34_Witness ==
    /\ app.navigation.level = "Service"
    /\ app.navigation.selected_cluster = None
    /\ app.status_message = Msg("Found {} services", "", 1)
    /\ ~app.loading
    /\ pc = "drain"

\* C35: in every reachable state at Cluster, Service or Task whose list is
\* empty, select_item spawns nothing, launches nothing and leaves the App as
\* it is: no selection is recorded and level, loading, status message and
\* cursor keep their values.
C35_SelectNeedsItem ==
    \A l \in {"Cluster", "Service", "Task"} :
        (app.navigation.level = l
            /\ \A c \in Collections : LevelOfCollection(c) = l => app[c] = <<>>) =>
            LET r == select_item(app) IN
            /\ r.spawn = <<>>
            /\ ~r.launch
            /\ ~r.panic
            /\ r.app.navigation = app.navigation
            /\ r.app.loading = app.loading
            /\ r.app.status_message = app.status_message
            /\ r.app.selected_index = app.selected_index
            /\ r.app = app

\* A key has been handled at Service, where the list came back empty and
\* nothing is outstanding.
C35_Witness ==
    /\ pc = "drain"
    /\ app.navigation.level = "Service"
    /\ app.services = <<>>
    /\ app.status_message = Msg("Found {} services", "", 0)
    /\ inflight = <<>>
    /\ channel = <<>>
    /\ ~app.loading

\* The list shown at a level.
ItemsAt(a) ==
    CASE a.navigation.level = "Region" -> regions
      [] a.navigation.level = "ServiceType" -> service_types
      [] a.navigation.level = "Cluster" -> a.clusters
      [] a.navigation.level = "Service" -> a.services
      [] a.navigation.level = "Task" -> a.tasks
      [] a.navigation.level = "Container" -> a.containers
      [] a.navigation.level = "Ec2Instance" -> a.ec2_instances

\* C36: select_item never unwraps an absent selection: in every reachable
\* state at ServiceType, Cluster, Service or Task with an item at the cursor
\* the region is selected, at Service and Task the cluster is selected too,
\* and select_item does not panic.
C36_SelectNeverPanics ==
    (app.navigation.level \in {"ServiceType", "Cluster", "Service", "Task"}
        /\ IsSome(Get(ItemsAt(app), app.selected_index))) =>
        /\ IsSome(app.navigation.selected_region)
        /\ app.navigation.level \in {"Service", "Task"} =>
                IsSome(app.navigation.selected_cluster)
        /\ ~select_item(app).panic

\* C37: the region is selected in every state below Region; a selected
\* region is never cleared, whatever the step; and selected_region changes
\* only when Enter is handled at Region, to the region at the cursor.
C37_RegionSelectionPersists ==
    [][/\ app'.navigation.level # "Region" => IsSome(app'.navigation.selected_region)
       /\ IsSome(app.navigation.selected_region) =>
            IsSome(app'.navigation.selected_region)
       /\ app'.navigation.selected_region # app.navigation.selected_region =>
            /\ pc = "poll"
            /\ app.navigation.level = "Region"
            /\ app' = select_item(app).app
            /\ app'.navigation.selected_region = Get(regions, app.selected_index)]_vars

\* go_back has arrived at Region from ServiceType and the region chosen
\* before is still recorded.
C37_Witness ==
    /\ app.navigation.level = "Region"
    /\ app.status_message = Msg("Select a region", "", 0)
    /\ IsSome(app.navigation.selected_region)
    /\ app.navigation.service_type = None

C39_ServiceTypeMatchesBranch ==
    /\ app.navigation.level \in {"Cluster", "Service", "Task", "Container"} =>
            app.navigation.service_type = Some("ECS")
    /\ app.navigation.level = "Ec2Instance" =>
            app.navigation.service_type = Some("EC2")

\* force_deployment has what it needs: the level is Service, a service is at
\* the cursor and the region and the cluster are selected.
CanDeploy(a) ==
    /\ a.navigation.level = "Service"
    /\ IsSome(Get(a.services, a.selected_index))
    /\ IsSome(a.navigation.selected_region)
    /\ IsSome(a.navigation.selected_cluster)

\* C40: in every reachable state force_deployment spawns the redeployment
\* of the service at the cursor exactly when the level is Service, a service
\* is at the cursor and region and cluster are selected, and then it sets
\* loading and the status message and nothing else; in every other state it
\* spawns nothing and leaves the App as it is.
C40_ForceDeployment ==
    LET r == force_deployment(app) IN
    /\ ~r.launch
    /\ ~r.panic
    /\ ~CanDeploy(app) => r.app = app /\ r.spawn = <<>>
    /\ CanDeploy(app) =>
            /\ r.spawn = <<Fetch("force_new_deployment",
                                 Unwrap(app.navigation.selected_region),
                                 Unwrap(app.navigation.selected_cluster),
                                 app.services[app.selected_index + 1],
                                 "Failed to trigger deployment: {}")>>
            /\ r.app.loading
            /\ r.app.status_message =
                    Msg("Triggering deployment for {}...", "",
                        app.services[app.selected_index + 1])
            /\ r.app.navigation = app.navigation
            /\ \A c \in Collections : r.app[c] = app[c]
            /\ r.app.selected_index = app.selected_index
            /\ r.app = [app EXCEPT !.loading = TRUE,
                                   !.status_message = r.app.status_message]

\* A redeployment has been started and still runs; the level is Service as
\* before.
C40_Witness ==
    /\ \E i \in 1..Len(inflight) : inflight[i].op = "force_new_deployment"
    /\ app.loading
    /\ app.status_message = Msg("Triggering deployment for {}...", "", 1)
    /\ app.navigation.level = "Service"
    /\ app.services = <<1>>

====
